---- MODULE Spec2Model ----
(***************************************************************************)
(* The chat relay of main.go as a state machine: the connection registry   *)
(* (users, userMu), the message log (messages, msgID, msgMu), the session  *)
(* directory (sessions), one wsHandler goroutine per connection and the    *)
(* two HTTP read handlers.  Strings that the code indexes byte-wise        *)
(* (identities, senders) and strings whose two-word header the code writes *)
(* without a lock (message contents) are sequences of bytes.               *)
(***************************************************************************)
EXTENDS Integers, Sequences, FiniteSets, TLC

\* Bounds of the model.
NumConns == 2
MaxMsgs == 2

Conns == 1..NumConns
HttpTask == NumConns + 1

\* Byte strings: "a", "e-acute" (UTF-8 C3 A9), "hi", "y", the empty string,
\* and the first character (UTF-8 E6 AC A2) of the seeded last message.
Empty == <<>>
Alice == <<97>>
Elodie == <<195, 169>>
Identities == {Alice, Elodie}
Hi == <<104, 105>>
Yo == <<121>>
Welcome == <<230, 172, 162>>
PublicChat == "public-chat"
OtherID == "nonexistent-id"
SessionIDs == {PublicChat, OtherID}

\* string(b) for a byte b: the UTF-8 encoding of the code point b.
StringOfByte(b) ==
  IF b < 128 THEN <<b>> ELSE <<192 + (b \div 64), 128 + (b % 64)>>

\* string(s[0]); indexing the empty string panics, which the callers guard.
AvatarOf(s) == StringOfByte(s[1])

\* A Go string header {data pointer, length} and the text read through it;
\* bytes read past the end of the backing array are unknown (0 here).
StringHeader(s) == [ptr |-> s, len |-> Len(s)]
TextOf(h) ==
  [i \in 1..h.len |-> IF i <= Len(h.ptr) THEN h.ptr[i] ELSE 0]

\* users, messages, sessions, userMu, msgMu, msgID: the package variables
\* (a mutex is the set of tasks holding it).  now: the clock time.Now()
\* reads, each reading later than the one before.  pc, username, msg, todo:
\* each wsHandler's position and locals (todo: the entries its range over
\* users has still to visit).  sent: the frames delivered to each
\* connection, each with the handler that sent it.  hpc, sessionID, res:
\* messagesHandler's position and locals.
VARIABLES users, messages, sessions, userMu, msgMu, msgID, now,
          pc, username, msg, todo, sent,
          hpc, sessionID, res

shared == <<users, messages, sessions, msgID>>
vars == <<users, messages, sessions, userMu, msgMu, msgID, now,
          pc, username, msg, todo, sent,
          hpc, sessionID, res>>

\* The zero Message of `var msg Message`.
ZeroMessage ==
  [ID |-> 0, From |-> Empty, To |-> "", Content |-> Empty,
   Timestamp |-> 0, IsRead |-> FALSE, Avatar |-> Empty]

\* What a client may put in a message frame.  The server-assigned fields
\* (id, timestamp, is_read, avatar) are either left zero or forged.
ClientFrames ==
  { [ID |-> 7, From |-> Alice, To |-> PublicChat, Content |-> Hi,
     Timestamp |-> 9, IsRead |-> TRUE, Avatar |-> Yo],
    [ID |-> 0, From |-> Elodie, To |-> PublicChat, Content |-> Yo,
     Timestamp |-> 0, IsRead |-> FALSE, Avatar |-> Empty],
    [ID |-> 0, From |-> Alice, To |-> OtherID, Content |-> Yo,
     Timestamp |-> 0, IsRead |-> FALSE, Avatar |-> Empty],
    [ID |-> 7, From |-> Empty, To |-> PublicChat, Content |-> Hi,
     Timestamp |-> 9, IsRead |-> TRUE, Avatar |-> Yo] }

\* The directory after init(): the public room (its display name in ASCII).
SeedSessions ==
  << [ID |-> PublicChat, Name |-> "Gonggong liaotianshi",
      Avatar |-> "https://img.icons8.com/fluency/96/000000/chat.png",
      IsGroup |-> TRUE, LastMsg |-> StringHeader(Welcome),
      LastTime |-> 0, Unread |-> 0] >>

Init ==
  /\ users = {}
  /\ messages = <<>>
  /\ sessions = SeedSessions
  /\ userMu = {}
  /\ msgMu = {}
  /\ msgID = 1
  /\ now = 1
  /\ pc = [c \in Conns |-> "Handshake"]
  /\ username = [c \in Conns |-> Empty]
  /\ msg = [c \in Conns |-> ZeroMessage]
  /\ todo = [c \in Conns |-> {}]
  /\ sent = [c \in Conns |-> <<>>]
  /\ hpc = "idle"
  /\ sessionID = ""
  /\ res = <<>>

-----------------------------------------------------------------------------
\* Connection registry.

NewUser(name, ws) == [Username |-> name, Avatar |-> AvatarOf(name), WS |-> ws]

\* A store that never replaces an entry of the same identity.
MapStoreKeep(m, u) == m \cup {u}

\* users[name] = u
MapStore(m, u) == {e \in m : e.Username # u.Username} \cup {u}

\* A delete that removes nothing.
MapDeleteNone(m, name) == m

\* delete(users, name)
MapDelete(m, name) == {e \in m : e.Username # name}

\* A delivery put in front of the earlier ones.
DeliveredFirst(ws, m, via, by) ==
  [sent EXCEPT ![ws] = <<[msg |-> m, via |-> via, by |-> by]>> \o @]

\* websocket.JSON.Send(ws, m) called by handler `by`: the frame is delivered
\* to connection ws, or the send fails and the error is discarded.
Delivered(ws, m, via, by) ==
  [sent EXCEPT ![ws] = Append(@, [msg |-> m, via |-> via, by |-> by])]

Send(ws, m, via, by) ==
  \E ok \in BOOLEAN : sent' = IF ok THEN Delivered(ws, m, via, by) ELSE sent

\* A handshake check that forgets the empty identity.
HandshakeFailsOnError(err, name) == err

\* Handshake: err != nil || username == ""
HandshakeFails(err, name) == err \/ name = Empty

Handshake(c) ==
  /\ pc[c] = "Handshake"
  /\ \E err \in BOOLEAN, name \in Identities \cup {Empty} :
       /\ LET got == IF err THEN Empty ELSE name
          IN /\ username' = [username EXCEPT ![c] = got]
             /\ pc' = [pc EXCEPT ![c] =
                         IF HandshakeFails(err, got) THEN "Close" ELSE "Register"]
  /\ UNCHANGED <<users, messages, sessions, userMu, msgMu, msgID, now,
                 msg, todo, sent, hpc, sessionID, res>>

\* A registration that does not take userMu.
RegisterUnlocked(c) ==
  /\ pc[c] = "Register"
  /\ username[c] # Empty
  /\ users' = MapStore(users, NewUser(username[c], c))
  /\ pc' = [pc EXCEPT ![c] = "Receive"]
  /\ UNCHANGED <<messages, sessions, userMu, msgMu, msgID, now,
                 username, msg, todo, sent, hpc, sessionID, res>>

Register(c) ==
  /\ pc[c] = "Register"
  /\ userMu = {}
  /\ IF username[c] = Empty
     THEN \* username[0] panics with userMu locked and nothing stored
          /\ pc' = [pc EXCEPT ![c] = "Close"]
          /\ userMu' = {c}
          /\ UNCHANGED users
     ELSE /\ users' = MapStore(users, NewUser(username[c], c))
          /\ pc' = [pc EXCEPT ![c] = "Receive"]
          /\ UNCHANGED userMu
  /\ UNCHANGED <<messages, sessions, msgMu, msgID, now,
                 username, msg, todo, sent, hpc, sessionID, res>>

Deregister(c) ==
  /\ pc[c] = "Deregister"
  /\ userMu = {}
  /\ users' = MapDelete(users, username[c])
  /\ pc' = [pc EXCEPT ![c] = "Close"]
  /\ UNCHANGED <<messages, sessions, userMu, msgMu, msgID, now,
                 username, msg, todo, sent, hpc, sessionID, res>>

Close(c) ==
  /\ pc[c] = "Close"
  /\ pc' = [pc EXCEPT ![c] = "Closed"]
  /\ UNCHANGED <<users, messages, sessions, userMu, msgMu, msgID, now,
                 username, msg, todo, sent, hpc, sessionID, res>>

-----------------------------------------------------------------------------
\* The Active loop of wsHandler.

\* Frames received and not yet stamped; with msgID this caps the log.
InFlight == Cardinality({c \in Conns : pc[c] \in {"Append", "Stamp"}})

\* websocket.JSON.Receive: an error (dropped transport, malformed frame)
\* leaves the loop; a frame fills msg.
ReceiveError(c) ==
  /\ pc[c] = "Receive"
  /\ pc' = [pc EXCEPT ![c] = "Deregister"]
  /\ UNCHANGED <<users, messages, sessions, userMu, msgMu, msgID, now,
                 username, msg, todo, sent, hpc, sessionID, res>>

ReceiveFrame(c) ==
  /\ pc[c] = "Receive"
  /\ msgID + InFlight <= MaxMsgs
  /\ \E frame \in ClientFrames : msg' = [msg EXCEPT ![c] = frame]
  /\ pc' = [pc EXCEPT ![c] = "Append"]
  /\ UNCHANGED <<users, messages, sessions, userMu, msgMu, msgID, now,
                 username, todo, sent, hpc, sessionID, res>>

\* msgMu.Lock()
LockMsg(c) ==
  /\ pc[c] = "Append"
  /\ msgMu = {}
  /\ msgMu' = {c}
  /\ pc' = [pc EXCEPT ![c] = "Stamp"]
  /\ UNCHANGED <<users, messages, sessions, userMu, msgID, now,
                 username, msg, todo, sent, hpc, sessionID, res>>

\* msg.ID = msgID; msg.Timestamp = time.Now(); msg.IsRead = false
Stamped(m, id, t) == [m EXCEPT !.ID = id, !.Timestamp = t, !.IsRead = FALSE]

\* msg.Avatar = string(msg.From[0])
WithAvatar(m) == [m EXCEPT !.Avatar = AvatarOf(m.From)]

\* An append at the wrong end of the log.
PrependMessage(log, m) == <<m>> \o log

\* A stamped message that is never stored.
SkipAppend(log, m) == log

\* messages = append(messages, msg)
AppendMessage(log, m) == Append(log, m)

\* Lines 111-117 with msgMu held.  msg.From[0] on an empty sender panics
\* after msgID++ and before the append and the unlock: the panic unwinds
\* through the deferred deregistration and ws.Close(), the HTTP server
\* recovers it, and msgMu stays locked.
Stamp(c) ==
  /\ pc[c] = "Stamp"
  /\ msgID' = msgID + 1
  /\ now' = now + 1
  /\ LET m == Stamped(msg[c], msgID, now)
     IN IF m.From = Empty
        THEN /\ msg' = [msg EXCEPT ![c] = ZeroMessage]
             /\ pc' = [pc EXCEPT ![c] = "Deregister"]
             /\ UNCHANGED <<messages, msgMu>>
        ELSE /\ msg' = [msg EXCEPT ![c] = WithAvatar(m)]
             /\ messages' = AppendMessage(messages, WithAvatar(m))
             /\ msgMu' = {}
             /\ pc' = [pc EXCEPT ![c] = "Summary"]
  /\ UNCHANGED <<users, sessions, userMu, username, todo, sent,
                 hpc, sessionID, res>>

\* for i, s := range sessions { if s.ID == msg.To { ...; break } }:
\* the index of the first session with that id, 0 when there is none.
RECURSIVE ScanSessions(_, _, _)
ScanSessions(ss, to, i) ==
  IF i > Len(ss) THEN 0
  ELSE IF ss[i].ID = to THEN i
  ELSE ScanSessions(ss, to, i + 1)

\* An update that takes the first session whatever its id.
FindSessionFirst(ss, to) == IF Len(ss) > 0 THEN 1 ELSE 0

FindSession(ss, to) == ScanSessions(ss, to, 1)

\* sessions[i].LastMsg = msg.Content, no lock held: the two words of the
\* string header are stored one after the other.
StoreLen(ss, i, s) == [ss EXCEPT ![i].LastMsg.len = Len(s)]
StorePtr(ss, i, s) == [ss EXCEPT ![i].LastMsg.ptr = s]
\* sessions[i].LastTime = msg.Timestamp
StoreTime(ss, i, t) == [ss EXCEPT ![i].LastTime = t]

Summary(c) ==
  /\ pc[c] = "Summary"
  /\ LET i == FindSession(sessions, msg[c].To)
     IN IF i = 0
        THEN /\ pc' = [pc EXCEPT ![c] = "Broadcast"]
             /\ UNCHANGED sessions
        ELSE /\ sessions' = StoreLen(sessions, i, msg[c].Content)
             /\ pc' = [pc EXCEPT ![c] = "SummaryPtr"]
  /\ UNCHANGED <<users, messages, userMu, msgMu, msgID, now,
                 username, msg, todo, sent, hpc, sessionID, res>>

SummaryPtr(c) ==
  /\ pc[c] = "SummaryPtr"
  /\ sessions' = StorePtr(sessions, FindSession(sessions, msg[c].To),
                          msg[c].Content)
  /\ pc' = [pc EXCEPT ![c] = "SummaryTime"]
  /\ UNCHANGED <<users, messages, userMu, msgMu, msgID, now,
                 username, msg, todo, sent, hpc, sessionID, res>>

SummaryTime(c) ==
  /\ pc[c] = "SummaryTime"
  /\ sessions' = StoreTime(sessions, FindSession(sessions, msg[c].To),
                           msg[c].Timestamp)
  /\ pc' = [pc EXCEPT ![c] = "Broadcast"]
  /\ UNCHANGED <<users, messages, userMu, msgMu, msgID, now,
                 username, msg, todo, sent, hpc, sessionID, res>>

\* broadcast(msg): userMu.Lock(); the range over users starts.
Broadcast(c) ==
  /\ pc[c] = "Broadcast"
  /\ userMu = {}
  /\ userMu' = {c}
  /\ todo' = [todo EXCEPT ![c] = users]
  /\ pc' = [pc EXCEPT ![c] = "FanOut"]
  /\ UNCHANGED <<users, messages, sessions, msgMu, msgID, now,
                 username, msg, sent, hpc, sessionID, res>>

\* if u.Username == msg.From { continue }
Skips(u, m) == u.Username = m.From

\* A fan-out that gives up at the first failed send.
FanOutAbort(c) ==
  /\ pc[c] = "FanOut"
  /\ \E u \in todo[c] :
       \/ /\ todo' = [todo EXCEPT ![c] = @ \ {u}]
          /\ sent' = IF Skips(u, msg[c]) THEN sent
                     ELSE Delivered(u.WS, msg[c], "broadcast", c)
       \/ /\ ~Skips(u, msg[c])
          /\ todo' = [todo EXCEPT ![c] = {}]
          /\ UNCHANGED sent
  /\ UNCHANGED <<users, messages, sessions, userMu, msgMu, msgID, now,
                 pc, username, msg, hpc, sessionID, res>>

\* One iteration of the range, in the map's arbitrary order.
FanOut(c) ==
  /\ pc[c] = "FanOut"
  /\ \E u \in todo[c] :
       /\ todo' = [todo EXCEPT ![c] = @ \ {u}]
       /\ IF Skips(u, msg[c]) THEN UNCHANGED sent
          ELSE Send(u.WS, msg[c], "broadcast", c)
  /\ UNCHANGED <<users, messages, sessions, userMu, msgMu, msgID, now,
                 pc, username, msg, hpc, sessionID, res>>

\* The range is over: the deferred userMu.Unlock().
BroadcastDone(c) ==
  /\ pc[c] = "FanOut"
  /\ todo[c] = {}
  /\ userMu' = {}
  /\ pc' = [pc EXCEPT ![c] = "Echo"]
  /\ UNCHANGED <<users, messages, sessions, msgMu, msgID, now,
                 username, msg, todo, sent, hpc, sessionID, res>>

\* _ = websocket.JSON.Send(ws, msg); the iteration's msg goes out of scope.
Echo(c) ==
  /\ pc[c] = "Echo"
  /\ Send(c, msg[c], "echo", c)
  /\ msg' = [msg EXCEPT ![c] = ZeroMessage]
  /\ pc' = [pc EXCEPT ![c] = "Receive"]
  /\ UNCHANGED <<users, messages, sessions, userMu, msgMu, msgID, now,
                 username, todo, hpc, sessionID, res>>

-----------------------------------------------------------------------------
\* The HTTP read handlers.

\* A scan without the recipient test.
MatchesAll(m, sid) == TRUE

\* if msg.To == sessionID
Matches(m, sid) == m.To = sid

\* for _, msg := range messages { if ... { res = append(res, msg) } }
RECURSIVE ScanMessages(_, _, _, _)
ScanMessages(log, sid, i, acc) ==
  IF i > Len(log) THEN acc
  ELSE ScanMessages(log, sid, i + 1,
                    IF Matches(log[i], sid) THEN Append(acc, log[i]) ELSE acc)

\* GET /api/messages with no session_id: 400, nothing is read.
HistoryBadRequest ==
  /\ hpc = "idle"
  /\ UNCHANGED vars

\* GET /api/messages?session_id=sid: msgMu.Lock() and the scan, which no
\* other holder of msgMu can interleave with.
HistoryScan ==
  /\ hpc = "idle"
  /\ msgMu = {}
  /\ \E sid \in SessionIDs :
       /\ sessionID' = sid
       /\ res' = ScanMessages(messages, sid, 1, <<>>)
  /\ msgMu' = {HttpTask}
  /\ hpc' = "scanned"
  /\ UNCHANGED <<users, messages, sessions, userMu, msgID, now,
                 pc, username, msg, todo, sent>>

\* msgMu.Unlock(); res is encoded into the response and the handler returns.
HistoryReturn ==
  /\ hpc = "scanned"
  /\ msgMu' = {}
  /\ hpc' = "idle"
  /\ sessionID' = ""
  /\ res' = <<>>
  /\ UNCHANGED <<users, messages, sessions, userMu, msgID, now,
                 pc, username, msg, todo, sent>>

\* GET /api/sessions: sessions is read and encoded with no lock held.
ListSessions ==
  /\ UNCHANGED vars

-----------------------------------------------------------------------------

HandlerNext ==
  \E c \in Conns :
    \/ Handshake(c)
    \/ Register(c)
    \/ ReceiveError(c)
    \/ ReceiveFrame(c)
    \/ LockMsg(c)
    \/ Stamp(c)
    \/ Summary(c)
    \/ SummaryPtr(c)
    \/ SummaryTime(c)
    \/ Broadcast(c)
    \/ FanOut(c)
    \/ BroadcastDone(c)
    \/ Echo(c)
    \/ Deregister(c)
    \/ Close(c)

HttpNext ==
  \/ HistoryBadRequest
  \/ HistoryScan
  \/ HistoryReturn
  \/ ListSessions

Next == HandlerNext \/ HttpNext

Spec == Init /\ [][Next]_vars

-----------------------------------------------------------------------------
\* Vocabulary of the properties.

\* A step taken by handler c.
StepOf(c) == pc'[c] # pc[c] \/ todo'[c] # todo[c]

IsPrefix(a, b) == Len(a) <= Len(b) /\ SubSeq(b, 1, Len(a)) = a

\* The first character of a UTF-8 string: its lead byte and continuation bytes.
FirstChar(s) ==
  LET n == IF s[1] < 192 THEN 1 ELSE IF s[1] < 224 THEN 2
           ELSE IF s[1] < 240 THEN 3 ELSE 4
  IN SubSeq(s, 1, n)

\* The positions of the log addressed to r, and "out is the log restricted
\* to them, in log order".
Addressed(log, r) == {i \in 1..Len(log) : log[i].To = r}
IsHistory(out, log, r) ==
  /\ Len(out) = Cardinality(Addressed(log, r))
  /\ \A i \in Addressed(log, r) :
       out[Cardinality({j \in Addressed(log, r) : j <= i})] = log[i]

SessionExists(to) == \E i \in 1..Len(sessions) : sessions[i].ID = to

\* Handlers that left the loop or never entered it.
Leaving == {"Deregister", "Close", "Closed"}

-----------------------------------------------------------------------------
\* C1: the ids in the log, in append order, are exactly 1, 2, 3, ..., and
\* the id counter never advances without a message being appended (the
\* counter is always one more than the number of messages in the log).
C1_IdsSequential ==
  /\ \A i \in 1..Len(messages) : messages[i].ID = i
  /\ msgID = Len(messages) + 1

\* C2: a message with sender S is never delivered by the fan-out to a
\* connection of identity S, and the echo of a message is received by its
\* sender S, once: every echo lands on a connection whose identity is the
\* message's sender, whatever the frame's from field carried.
C2_EchoToSender ==
  \A c \in Conns : \A i \in 1..Len(sent[c]) :
    /\ sent[c][i].via = "broadcast" => sent[c][i].msg.From # username[c]
    /\ sent[c][i].via = "echo" =>
         /\ sent[c][i].msg.From = username[c]
         /\ \A j \in 1..Len(sent[c]) :
              sent[c][j].msg.ID = sent[c][i].msg.ID => j = i

\* C3: a frame with an empty sender is rejected: the handler leaves the loop
\* towards Closed and the log, the id counter, the session directory and
\* the deliveries are as they were.
C3_EmptySenderRejected ==
  [][\A c \in Conns :
       (pc[c] \in {"Append", "Stamp"} /\ msg[c].From = Empty
          /\ pc'[c] \notin {"Append", "Stamp"})
       => /\ pc'[c] \in Leaving
          /\ UNCHANGED <<messages, msgID, sessions, sent>>]_vars

\* C4: no failure of a handler leaves a lock held: msgMu is held only by a
\* handler inside lines 110-117 or by a history read inside its scan, and
\* userMu only by a handler inside its fan-out, so every other handler's
\* append and every history read can still go on.
C4_NoLockLeak ==
  /\ \A t \in msgMu : IF t = HttpTask THEN hpc = "scanned" ELSE pc[t] = "Stamp"
  /\ \A t \in userMu : pc[t] = "FanOut"

\* C5: the registry holds at most one entry per identity, and right after a
\* connection registers identity U the one entry for U holds that
\* connection's handle (a second registration replaces the first).
C5_OneEntry ==
  \A e1 \in users, e2 \in users : e1.Username = e2.Username => e1 = e2

C5_LatestHandle ==
  [][\A c \in Conns :
       (pc[c] = "Register" /\ pc'[c] = "Receive")
       => {e.WS : e \in {x \in users' : x.Username = username[c]}} = {c}]_vars

C5_RegisterReplaces == []C5_OneEntry /\ C5_LatestHandle

C5_Witness ==
  \E c \in Conns, d \in Conns :
    /\ c # d
    /\ username[c] = username[d]
    /\ pc[c] = "Receive" /\ pc[d] = "Receive"
    /\ Cardinality(users) = 1

\* C6: the history read returns exactly the messages of the log addressed
\* to the requested id, in append order (none when nothing matches), and
\* changes neither the log, the id counter, the directory nor the registry.
C6_ScanExact == hpc = "scanned" => IsHistory(res, messages, sessionID)

C6_ReadOnly == [][hpc' # hpc => UNCHANGED shared]_vars

C6_History == []C6_ScanExact /\ C6_ReadOnly

C6_Witness ==
  /\ hpc = "scanned"
  /\ Len(messages) = 2
  /\ Len(res) = 1

\* C7: the directory always holds exactly the seeded sessions; a handler's
\* summary update stores into the session whose id is the message's
\* recipient and into nothing else, and when no session has that id the
\* message, already in the log, goes on to the broadcast with the directory
\* unchanged.
C7_Seeded ==
  /\ Len(sessions) = Len(SeedSessions)
  /\ \A i \in 1..Len(sessions) :
       /\ sessions[i].ID = SeedSessions[i].ID
       /\ sessions[i].Name = SeedSessions[i].Name
       /\ sessions[i].Avatar = SeedSessions[i].Avatar
       /\ sessions[i].IsGroup = SeedSessions[i].IsGroup
       /\ sessions[i].Unread = SeedSessions[i].Unread

C7_UpdateIffExists ==
  [][\A c \in Conns : StepOf(c) =>
       IF pc[c] \in {"Summary", "SummaryPtr", "SummaryTime"}
          /\ SessionExists(msg[c].To)
       THEN \A i \in 1..Len(sessions) :
              IF sessions[i].ID # msg[c].To THEN sessions'[i] = sessions[i]
              ELSE /\ pc[c] = "Summary" =>
                        sessions'[i].LastMsg.len = Len(msg[c].Content)
                   /\ pc[c] = "SummaryPtr" =>
                        sessions'[i].LastMsg.ptr = msg[c].Content
                   /\ pc[c] = "SummaryTime" =>
                        sessions'[i].LastTime = msg[c].Timestamp
       ELSE /\ sessions' = sessions
            /\ pc[c] = "Summary" =>
                 /\ pc'[c] = "Broadcast"
                 /\ \E k \in 1..Len(messages) : messages[k] = msg[c]]_vars

C7_Directory == []C7_Seeded /\ C7_UpdateIffExists

C7_Witness ==
  /\ sessions = SeedSessions
  /\ \E c \in Conns : \E i \in 1..Len(sent[c]) :
       /\ sent[c][i].via = "broadcast"
       /\ sent[c][i].msg.To = OtherID
       /\ \E k \in 1..Len(messages) : messages[k] = sent[c][i].msg

\* C8: a handler whose handshake receive fails or yields the empty identity
\* goes from Handshake to Closed through the transport release alone: none
\* of its steps changes the registry, the log, the id counter, the
\* directory or the deliveries.
C8_FailedHandshake ==
  [][\A c \in Conns :
       /\ (pc[c] = "Handshake" /\ StepOf(c) /\ username'[c] = Empty)
            => pc'[c] = "Close" /\ UNCHANGED <<shared, sent>>
       /\ (pc[c] # "Handshake" /\ username[c] = Empty /\ StepOf(c))
            => /\ pc[c] = "Close"
               /\ pc'[c] = "Closed"
               /\ UNCHANGED <<shared, sent>>]_vars

C8_Witness ==
  \E c \in Conns :
    /\ pc[c] = "Closed"
    /\ username[c] = Empty
    /\ users # {}
    /\ messages # <<>>

\* C9: every message of the log and every delivered message carries the
\* allocated sequence number as id, a false read flag, and the first
\* character of its sender as avatar.
ServerAssigned(m) ==
  /\ m.ID \in 1..(msgID - 1)
  /\ m.IsRead = FALSE
  /\ m.Avatar = FirstChar(m.From)

C9_ServerAssigned ==
  /\ \A i \in 1..Len(messages) :
       messages[i].ID = i /\ ServerAssigned(messages[i])
  /\ \A c \in Conns : \A i \in 1..Len(sent[c]) : ServerAssigned(sent[c][i].msg)

\* C10: the log is append-only: in every step the previous log is a prefix
\* of the new one.
C10_AppendOnly == [][IsPrefix(messages, messages')]_vars

C10_Witness ==
  /\ Len(messages) = 2
  /\ hpc = "scanned"
  /\ sessions # SeedSessions
  /\ \E c \in Conns : pc[c] = "Closed" /\ username[c] # Empty

\* C11: the session directory is guarded by msgMu: a handler that has begun
\* and not finished storing a summary holds msgMu, no two handlers are in
\* that position together, and the directory listing cannot run meanwhile.
MidUpdate == {"SummaryPtr", "SummaryTime"}

C11_DirectoryLocked ==
  /\ \A c \in Conns : pc[c] \in MidUpdate => c \in msgMu
  /\ \A c \in Conns, d \in Conns :
       pc[c] \in MidUpdate /\ pc[d] \in MidUpdate => c = d
  /\ (\E c \in Conns : pc[c] \in MidUpdate) => ~ENABLED ListSessions

\* C12: while a handler is in its fan-out it holds userMu, no step of any
\* task changes the registry, every delivery of the fan-out goes to an entry of that
\* registry other than the sender's, and the fan-out ends only when every
\* entry has been visited.
C12_Snapshot ==
  \A c \in Conns : pc[c] = "FanOut" => userMu = {c} /\ todo[c] \subseteq users

C12_Frozen ==
  [][\A c \in Conns : pc[c] = "FanOut" =>
       /\ users' = users
       /\ (StepOf(c) /\ sent' # sent) =>
            \E u \in users :
              /\ u.Username # msg[c].From
              /\ sent' = Delivered(u.WS, msg[c], "broadcast", c)
       /\ pc'[c] # "FanOut" => todo[c] = {}]_vars

C12_FanOutStable == []C12_Snapshot /\ C12_Frozen

C12_Witness ==
  \E c \in Conns, d \in Conns :
    /\ pc[c] = "FanOut"
    /\ pc[d] = "Deregister"
    /\ Cardinality(users) = 2
    /\ Cardinality(todo[c]) = 1

\* C13: a handler appends, then updates the summary, then fans out, then
\* echoes: its message is in the log under its id from the summary update
\* on, nothing of it is delivered before the fan-out, the echo comes after
\* the fan-out, and every delivered message is in the log with the same id.
InLog(m) == m.ID \in 1..Len(messages) /\ messages[m.ID] = m

DeliveredIDs(via) ==
  UNION { {sent[r][i].msg.ID : i \in {j \in 1..Len(sent[r]) : sent[r][j].via = via}} :
          r \in Conns }

AllDeliveredIDs == DeliveredIDs("broadcast") \cup DeliveredIDs("echo")

C13_LogFirst ==
  /\ \A r \in Conns : \A i \in 1..Len(sent[r]) : InLog(sent[r][i].msg)
  /\ \A c \in Conns :
       /\ pc[c] \in {"Summary", "SummaryPtr", "SummaryTime", "Broadcast",
                     "FanOut", "Echo"} => InLog(msg[c])
       /\ pc[c] \in {"Summary", "SummaryPtr", "SummaryTime", "Broadcast"}
            => msg[c].ID \notin AllDeliveredIDs
       /\ pc[c] = "FanOut" => msg[c].ID \notin DeliveredIDs("echo")

C13_Steps ==
  [][\A c \in Conns : StepOf(c) =>
       /\ sessions' # sessions => pc[c] \in {"Summary", "SummaryPtr", "SummaryTime"}
       /\ pc'[c] = "Broadcast" =>
            \/ pc[c] = "SummaryTime"
            \/ pc[c] = "Summary" /\ ~SessionExists(msg[c].To)
       /\ sent' # sent =>
            \E r \in Conns :
              /\ sent'[r] # sent[r]
              /\ LET e == sent'[r][Len(sent'[r])]
                 IN /\ e.by = c
                    /\ e.msg = msg[c]
                    /\ \/ pc[c] = "FanOut" /\ e.via = "broadcast"
                       \/ pc[c] = "Echo" /\ e.via = "echo" /\ r = c]_vars

C13_Order == []C13_LogFirst /\ C13_Steps

C13_Witness ==
  \E c \in Conns, r \in Conns, i \in 1..MaxMsgs, j \in 1..MaxMsgs :
    /\ c # r
    /\ i <= Len(sent[c]) /\ j <= Len(sent[r])
    /\ sent[c][i].via = "echo"
    /\ sent[r][j].via = "broadcast"
    /\ sent[c][i].msg = sent[r][j].msg
    /\ sessions[1].LastMsg = StringHeader(sent[c][i].msg.Content)

C15_StaysRegistered ==
  [][\A e \in users :
       pc[e.WS] \notin Leaving =>
         \/ e \in users'
         \/ \E f \in users' : f.Username = e.Username /\ f.WS # e.WS]_vars

\* C16: the registry never holds the handle of a connection that is
\* releasing or has released its transport; a handler that registered
\* reaches the release only through its deregistration; and a Closed
\* handler takes no further step and sends nothing.
C16_NoClosedHandle ==
  \A e \in users : pc[e.WS] \notin {"Close", "Closed"}

C16_Terminal ==
  [][\A c \in Conns :
       /\ pc[c] = "Closed" =>
            /\ pc'[c] = "Closed"
            /\ ~StepOf(c)
            /\ \A r \in Conns :
                 sent'[r] # sent[r] => sent'[r][Len(sent'[r])].by # c
       /\ (pc'[c] = "Closed" /\ pc[c] # "Closed") => pc[c] = "Close"
       /\ (pc'[c] = "Close" /\ pc[c] # "Close" /\ username[c] # Empty)
            => pc[c] = "Deregister"]_vars

C16_ClosedClean == []C16_NoClosedHandle /\ C16_Terminal

C16_Witness ==
  \E c \in Conns :
    /\ pc[c] = "Closed"
    /\ username[c] # Empty
    /\ \E i \in 1..Len(messages) : messages[i].From = username[c]
    /\ users # {}

\* C17: each lock has at most one holder, no task holds both, and no task
\* enters the registry section (register, deregister, broadcast) while it
\* holds msgMu.
C17_Mutex ==
  /\ Cardinality(msgMu) <= 1
  /\ Cardinality(userMu) <= 1
  /\ msgMu \cap userMu = {}

C17_OneSection ==
  [][\A c \in Conns :
       (StepOf(c) /\ pc[c] \in {"Register", "Deregister", "Broadcast"})
         => c \notin msgMu]_vars

C17_Locks == []C17_Mutex /\ C17_OneSection

\* C18: when no handler is between its append and the end of its summary
\* update, each session's last-message text is the content of the
\* highest-id message of the log addressed to it, or the seeded text.
Quiescent ==
  \A c \in Conns : pc[c] \notin {"Summary"} \cup MidUpdate

LatestTo(to) ==
  CHOOSE i \in Addressed(messages, to) :
    \A k \in Addressed(messages, to) : messages[k].ID <= messages[i].ID

C18_SummaryIsLatest ==
  Quiescent =>
    \A i \in 1..Len(sessions) :
      TextOf(sessions[i].LastMsg) =
        IF Addressed(messages, sessions[i].ID) = {} THEN Welcome
        ELSE messages[LatestTo(sessions[i].ID)].Content

\* C19 as stated: of any two messages delivered to one connection, the one
\* with the smaller id is delivered first.
C19_IdOrder ==
  \A r \in Conns : \A i, j \in 1..Len(sent[r]) :
    i < j => sent[r][i].msg.ID <= sent[r][j].msg.ID

\* C19 amended: of any two messages relayed by the same handler and
\* delivered to one connection, the one with the smaller id is delivered
\* first.
C19_IdOrderPerSender ==
  \A r \in Conns : \A i, j \in 1..Len(sent[r]) :
    (i < j /\ sent[r][i].by = sent[r][j].by)
      => sent[r][i].msg.ID <= sent[r][j].msg.ID

C19_Witness ==
  \E r \in Conns : \E i, j \in 1..Len(sent[r]) :
    /\ i < j
    /\ sent[r][i].by = sent[r][j].by
    /\ sent[r][i].msg.ID < sent[r][j].msg.ID
    /\ \E c \in Conns : c # sent[r][i].by /\ pc[c] \notin {"Handshake", "Register"}

\* C20: no connection is sent the same message id twice.
C20_AtMostOnce ==
  \A r \in Conns : \A i, j \in 1..Len(sent[r]) :
    i # j => sent[r][i].msg.ID # sent[r][j].msg.ID
====
